---- MODULE Spec2Model ----
(***************************************************************************)
(* Zetamac Race: one GameRecord in the shared document store, the          *)
(* GameLobby / GameRoom sessions of the participants (src/App.jsx) and the  *)
(* calculateEloOnGameEnd trigger (functions/index.js).                     *)
(*                                                                         *)
(* Every `await` of the source is a boundary between two actions: the      *)
(* store is read or written in one step, and what a handler holds between  *)
(* two awaits is kept in the handler's frame (joinPc, endPc, botPc, trig).  *)
(* A session's `game` React state (snap) changes only when the snapshot    *)
(* listener delivers the stored record.                                    *)
(***************************************************************************)
EXTENDS Integers, Sequences, FiniteSets, TLC

(* ---------------------------- bounds ----------------------------------- *)
\* a score is not raised beyond MaxScore
MaxScore == 1
\* the clock advances at most MaxTicks times
MaxTicks == 2
\* at most MaxFrames trigger executions are in flight at once
MaxFrames == 2
\* at most MaxRedeliver change events are delivered a second time
MaxRedeliver == 1
\* a score is not raised beyond RaceScore in the game with two joiners
RaceScore == 2
\* the highest score of the game against the bot
FinalScore == 5
\* the clock stops after LiveTicks steps in the specifications with fairness
LiveTicks == 4

(* ------------------------- program constants --------------------------- *)
GAME_DURATION_SECONDS == 120
STARTING_ELO == 200
ELO_K_FACTOR == 32
BOT_1000_ELO == 1000
BOT_2000_ELO == 2000
\* milliseconds by which one step of the clock advances Date.now(): half the
\* duration of a game
TickMs == (GAME_DURATION_SECONDS \div 2) * 1000

Users == {"u1", "u2", "u3"}
\* the identities createGame gives the bots
BotIds == {"BOT-1000", "BOT-2000"}
\* the identity that calls createGame
Creator == "u1"
OpponentTypes == {"human", "bot-1000", "bot-2000"}

\* JavaScript null / undefined, one marker per type of field
NullId == "null"
NullNum == -1
NullProblem == [num1 |-> 0, operation |-> "null", num2 |-> 0]
\* the `game` state of a GameRoom before the first snapshot, and the store
\* before createGame
NoGame == [status |-> "none"]
NoProfile == -1

Max(a, b) == IF a > b THEN a ELSE b

(* ------------------------- generateProblem ----------------------------- *)
\* a division whose dividend is drawn, not built from the quotient
generateProblemOpenDivision(operation, r1, r2, coin) ==
    CASE operation \in {"+", "-"} ->
           LET num1 == Max(r1, r2)
               num2 == IF r1 < r2 THEN r1 ELSE r2
           IN  [problem |-> [num1 |-> num1, operation |-> operation, num2 |-> num2],
                answer |-> IF operation = "+" THEN num1 + num2 ELSE num1 - num2]
      [] operation = "*" ->
           LET num1 == IF coin THEN r1 ELSE r2
               num2 == IF coin THEN r2 ELSE r1
           IN  [problem |-> [num1 |-> num1, operation |-> "*", num2 |-> num2],
                answer |-> num1 * num2]
      [] operation = "/" ->
           [problem |-> [num1 |-> r2, operation |-> "/", num2 |-> r1],
            answer |-> r2 \div r1]
      [] OTHER ->
           [problem |-> [num1 |-> 0, operation |-> operation, num2 |-> 0],
            answer |-> 0]

\* addition and subtraction without the swap
generateProblemUnordered(operation, r1, r2, coin) ==
    CASE operation \in {"+", "-"} ->
           LET num1 == r1
               num2 == r2
           IN  [problem |-> [num1 |-> num1, operation |-> operation, num2 |-> num2],
                answer |-> IF operation = "+" THEN num1 + num2 ELSE num1 - num2]
      [] operation = "*" ->
           LET num1 == IF coin THEN r1 ELSE r2
               num2 == IF coin THEN r2 ELSE r1
           IN  [problem |-> [num1 |-> num1, operation |-> "*", num2 |-> num2],
                answer |-> num1 * num2]
      [] operation = "/" ->
           [problem |-> [num1 |-> r1 * r2, operation |-> "/", num2 |-> r1],
            answer |-> r2]
      [] OTHER ->
           [problem |-> [num1 |-> 0, operation |-> operation, num2 |-> 0],
            answer |-> 0]

\* a multiplication with both factors from the wide range
generateProblemWideFactors(operation, r1, r2, coin) ==
    CASE operation \in {"+", "-"} ->
           LET num1 == Max(r1, r2)
               num2 == IF r1 < r2 THEN r1 ELSE r2
           IN  [problem |-> [num1 |-> num1, operation |-> operation, num2 |-> num2],
                answer |-> IF operation = "+" THEN num1 + num2 ELSE num1 - num2]
      [] operation = "*" ->
           LET num1 == IF coin THEN r1 * r1 ELSE r2
               num2 == IF coin THEN r2 ELSE r1 * r1
           IN  [problem |-> [num1 |-> num1, operation |-> "*", num2 |-> num2],
                answer |-> num1 * num2]
      [] operation = "/" ->
           [problem |-> [num1 |-> r1 * r2, operation |-> "/", num2 |-> r1],
            answer |-> r2]
      [] OTHER ->
           [problem |-> [num1 |-> 0, operation |-> operation, num2 |-> 0],
            answer |-> 0]

\* generateProblem with its random draws made explicit: operation, the two
\* Math.random() numbers r1, r2 and the display coin of a multiplication
generateProblem(operation, r1, r2, coin) ==
    CASE operation \in {"+", "-"} ->
           LET num1 == Max(r1, r2)
               num2 == IF r1 < r2 THEN r1 ELSE r2
           IN  [problem |-> [num1 |-> num1, operation |-> operation, num2 |-> num2],
                answer |-> IF operation = "+" THEN num1 + num2 ELSE num1 - num2]
      [] operation = "*" ->
           LET num1 == IF coin THEN r1 ELSE r2
               num2 == IF coin THEN r2 ELSE r1
           IN  [problem |-> [num1 |-> num1, operation |-> "*", num2 |-> num2],
                answer |-> num1 * num2]
      [] operation = "/" ->
           [problem |-> [num1 |-> r1 * r2, operation |-> "/", num2 |-> r1],
            answer |-> r2]
      [] OTHER ->
           [problem |-> [num1 |-> 0, operation |-> operation, num2 |-> 0],
            answer |-> 0]

\* the problems generateProblem returns when its draws are taken from `draws`
GameProblems(draws) == { generateProblem(d[1], d[2], d[3], d[4]) : d \in draws }
\* the draw behind "4 + 3" = 7
OneDraw == { <<"+", 3, 4, TRUE>> }
\* the draws behind "4 + 3" = 7 and "2 * 6" = 12
TwoDraws == { <<"+", 3, 4, TRUE>>, <<"*", 2, 6, TRUE>> }

\* Math.floor(Math.random() * n)
RandomBelow(n) == 0..(n - 1)
\* Math.floor(Math.random() * 99) + 2
NumberDraws == { i + 2 : i \in RandomBelow(99) }
\* Math.floor(Math.random() * 11) + 2
FactorDraws == { i + 2 : i \in RandomBelow(11) }

\* every combination of draws generateProblem can make: two numbers for an
\* addition or subtraction; factor1, factor2 and the coin for a
\* multiplication; divisor and quotient for a division
AllDraws ==
    { << operation, r1, r2, TRUE >> :
          operation \in {"+", "-"}, r1 \in NumberDraws, r2 \in NumberDraws }
    \cup { << "*", r1, r2, coin >> :
          r1 \in FactorDraws, r2 \in NumberDraws, coin \in BOOLEAN }
    \cup { << "/", r1, r2, TRUE >> : r1 \in FactorDraws, r2 \in NumberDraws }

(* ------------------------- String(number) ------------------------------ *)
RECURSIVE ToDigits(_)
\* String(n) of a non-negative integer, as its sequence of decimal digits
ToDigits(n) == IF n < 10 THEN <<n>> ELSE Append(ToDigits(n \div 10), n % 10)

RECURSIVE FromDigits(_)
\* Number(s) of a sequence of decimal digits
FromDigits(s) ==
    IF s = << >> THEN 0 ELSE 10 * FromDigits(SubSeq(s, 1, Len(s) - 1)) + s[Len(s)]

\* what a player may have typed into the answer field
Inputs == { <<7>>, <<8>>, <<0, 0, 7>>, <<1>>, <<1, 2>> }

(* ------------------------------ state ---------------------------------- *)
VARIABLES
    game,        \* the stored GameRecord, NoGame before createGame
    otherGame,   \* the stored GameRecord of another game, NoGame if there is none
    profile,     \* the stored RatingRecords: identity (user or bot) -> elo, or NoProfile
    now,         \* Date.now(), in milliseconds
    ticks,       \* how often the clock has advanced
    room,        \* room[u]: u's App shows the GameRoom (currentGameId set)
    snap,        \* snap[u]: the GameRoom's `game` state
    isGameActive,
    timer,
    botInterval, \* botInterval[u]: botIntervalRef.current holds an interval
    joinPc,      \* joinGame: "idle", or "write" between its read and its write
    endPc,       \* endGame: "idle", "read" (getDoc pending), "write" (updateDoc pending)
    endWinner,   \* the winnerId an endGame frame is about to write
    botPc,       \* bot interval callback: "idle" or "write"
    botRead,     \* the player2Score a bot callback has read
    events,      \* change events of the GameRecord not yet handled by the trigger
    trig,        \* the trigger executions in flight
    redelivered, \* how many deliveries were repeated deliveries of an event
    audit,       \* whether early returns are recorded in `rejected`
    rejected     \* the handler whose guard returned early in the last step

vars == << game, otherGame, profile, now, ticks, room, snap, isGameActive, timer,
           botInterval, joinPc, endPc, endWinner, botPc, botRead,
           events, trig, redelivered, audit, rejected >>

sessionVars == << room, snap, isGameActive, timer, botInterval >>
frameVars == << joinPc, endPc, endWinner, botPc, botRead >>
triggerVars == << trig, redelivered, audit >>

NoAttempt == << "none", "none" >>
\* the early return of handler `op`, called by `who`
Rejects(op, who) == rejected' = IF audit THEN << op, who >> ELSE NoAttempt


(* --------------------------- Rating Engine ----------------------------- *)
\* 10^(x/400) is irrational for almost every x, so getExpectedScore is held
\* to the precision calculateNewElo's Math.round can observe with kFactor =
\* 32: ExpectedSteps[j] is the largest integer difference eloB - eloA for
\* which the expected score of A is still >= j/64, j = 1..63.
ExpectedSteps ==
    << 719, 596, 523, 470, 428, 394, 364, 338, 314, 292, 273, 254, 237, 221,
       205, 190, 176, 162, 149, 136, 124, 112, 100, 88, 77, 65, 54, 43, 32,
       21, 10, 0, -11, -22, -33, -44, -55, -66, -78, -89, -101, -113, -125,
       -137, -150, -163, -177, -191, -206, -222, -238, -255, -274, -293,
       -315, -339, -365, -395, -429, -471, -524, -597, -720 >>

\* the same for kFactor = 11, in units of 1/22, j = 1..21
ExpectedStepsAt11 ==
    << 528, 400, 320, 261, 212, 170, 132, 97, 63, 31, 0, -32, -64, -98, -133,
       -171, -213, -262, -321, -400, -529 >>

\* the values of kFactor the engine is applied with: the trigger's, and one
\* for which a draw between ratings 400 apart moves each by a half
KFactors == {11, ELO_K_FACTOR}

ExpectedGrid(kFactor) ==
    IF kFactor = ELO_K_FACTOR THEN ExpectedSteps ELSE ExpectedStepsAt11

\* the differences eloB - eloA at which 2 * kFactor * E is a whole number
\* (E is 1/2, 1/11 or 10/11)
ExpectedExact(kFactor) ==
    IF kFactor = ELO_K_FACTOR THEN {0} ELSE {-400, 0, 400}

\* getExpectedScore(eloA, eloB) in units of 1/(2 * kFactor), for each
\* kFactor: whole == floor(2 * kFactor * E), exact == 2 * kFactor * E is that
\* integer
getExpectedScore(eloA, eloB) ==
    [kFactor \in KFactors |->
        [whole |-> Cardinality({ j \in DOMAIN ExpectedGrid(kFactor) :
                                   eloB - eloA <= ExpectedGrid(kFactor)[j] }),
         exact |-> (eloB - eloA) \in ExpectedExact(kFactor)]]

\* new ratings cut down to whole numbers instead of rounded
calculateNewEloTruncating(eloA, eloB, scoreA2, kFactor) ==
    LET e == getExpectedScore(eloA, eloB)[kFactor]
        twiceA == kFactor * scoreA2 - e.whole - (IF e.exact THEN 0 ELSE 1)
        twiceB == e.whole - kFactor * scoreA2
    IN  [newEloA |-> eloA + (twiceA \div 2),
         newEloB |-> eloB + (twiceB \div 2)]

\* calculateNewElo with scoreA given as twice its value (0, 1, 2 for loss,
\* draw, win) and kFactor in KFactors.  Math.round(x) is floor(x + 1/2):
\*   newEloA = floor(eloA + k*(scoreA - E) + 1/2)
\*   newEloB = floor(eloB + k*((1 - scoreA) - (1 - E)) + 1/2)
calculateNewElo(eloA, eloB, scoreA2, kFactor) ==
    LET e == getExpectedScore(eloA, eloB)[kFactor]
        \* 2k*(scoreA - E), rounded down to an integer when it is not one
        twiceA == kFactor * scoreA2 - e.whole - (IF e.exact THEN 0 ELSE 1)
        \* 2k*(E - scoreA), rounded down likewise
        twiceB == e.whole - kFactor * scoreA2
    IN  [newEloA |-> eloA + ((twiceA + 1) \div 2),
         newEloB |-> eloB + ((twiceB + 1) \div 2)]

(* ------------------------------ store ---------------------------------- *)
\* updateDoc / batch.update: an atomic merge of the given fields
Merge(rec, upd) ==
    [f \in DOMAIN rec |-> IF f \in DOMAIN upd THEN upd[f] ELSE rec[f]]

\* a committed update of the GameRecord `ref` ("game" or "otherGame"), and
\* the change event (before, after) the platform raises for it when a value
\* changed; the other record is left alone
UpdateRecord(ref, upd) ==
    LET current == IF ref = "game" THEN game ELSE otherGame
    IN  /\ game' = IF ref = "game" THEN Merge(game, upd) ELSE game
        /\ otherGame' = IF ref = "game" THEN otherGame ELSE Merge(otherGame, upd)
        /\ events' = IF Merge(current, upd) = current THEN events
                     ELSE events \cup {[ before |-> current,
                                         after |-> Merge(current, upd),
                                         ref |-> ref ]}

\* updateDoc(gameRef, upd) of a session of the game
UpdateDoc(upd) == UpdateRecord("game", upd)

\* a guard that looks at the new record only
TriggerGuardAfterOnly(e) ==
    ~ ( \/ e.after.status # "finished"
        \/ e.after.eloCalculated )

\* the trigger's guard: proceed on this change event?
TriggerGuard(e) ==
    ~ ( \/ e.before.status = "finished"
        \/ e.after.status # "finished"
        \/ e.after.eloCalculated )

\* The early return of the trigger touches no state, so where it falls in an
\* interleaving is immaterial: an event it returns on is handled before the
\* next step of anyone else.
Quiet == \A e \in events : TriggerGuard(e)

IsBot(opponentType) == opponentType \in {"bot-1000", "bot-2000"}

(* ----------------------------- GameLobby ------------------------------- *)
\* a freshly mounted GameRoom: useState initial values
Mount(u) ==
    /\ room' = [room EXCEPT ![u] = TRUE]
    /\ snap' = [snap EXCEPT ![u] = NoGame]
    /\ isGameActive' = [isGameActive EXCEPT ![u] = FALSE]
    /\ timer' = [timer EXCEPT ![u] = GAME_DURATION_SECONDS]
    /\ botInterval' = [botInterval EXCEPT ![u] = FALSE]

\* snap.exists ? snap.data().elo : STARTING_ELO
CurrentElo(u) ==
    IF u \in DOMAIN profile /\ profile[u] # NoProfile THEN profile[u] ELSE STARTING_ELO

\* a record created in waiting whatever the opponent is
NewGameAlwaysWaiting(userId, opponentType, player1Elo, createdAt) ==
    [ player1Id |-> userId,
      player1Score |-> 0,
      player1EloAtStart |-> player1Elo,
      player2Id |-> CASE opponentType = "bot-1000" -> "BOT-1000"
                      [] opponentType = "bot-2000" -> "BOT-2000"
                      [] OTHER -> NullId,
      player2Score |-> 0,
      player2EloAtStart |-> CASE opponentType = "bot-1000" -> BOT_1000_ELO
                              [] opponentType = "bot-2000" -> BOT_2000_ELO
                              [] OTHER -> STARTING_ELO,
      status |-> "waiting",
      opponentType |-> opponentType,
      currentProblem |-> NullProblem,
      currentAnswer |-> NullNum,
      startTime |-> NullNum,
      winnerId |-> NullId,
      eloCalculated |-> FALSE,
      createdAt |-> createdAt,
      player1NewElo |-> NullNum,
      player2NewElo |-> NullNum ]

NewGame(userId, opponentType, player1Elo, createdAt) ==
    [ player1Id |-> userId,
      player1Score |-> 0,
      player1EloAtStart |-> player1Elo,
      player2Id |-> CASE opponentType = "bot-1000" -> "BOT-1000"
                      [] opponentType = "bot-2000" -> "BOT-2000"
                      [] OTHER -> NullId,
      player2Score |-> 0,
      player2EloAtStart |-> CASE opponentType = "bot-1000" -> BOT_1000_ELO
                              [] opponentType = "bot-2000" -> BOT_2000_ELO
                              [] OTHER -> STARTING_ELO,
      status |-> IF opponentType = "human" THEN "waiting" ELSE "ready",
      opponentType |-> opponentType,
      currentProblem |-> NullProblem,
      currentAnswer |-> NullNum,
      startTime |-> NullNum,
      winnerId |-> NullId,
      eloCalculated |-> FALSE,
      createdAt |-> createdAt,
      player1NewElo |-> NullNum,
      player2NewElo |-> NullNum ]

\* createGame(opponentType) by the creator: addDoc, then onJoinGame
CreateGame(opponentType) ==
    /\ game = NoGame
    /\ game' = NewGame(Creator, opponentType, CurrentElo(Creator), now)
    /\ otherGame' = otherGame
    /\ Mount(Creator)
    /\ rejected' = NoAttempt
    /\ UNCHANGED << profile, now, ticks, frameVars, events, triggerVars >>

\* joinGame up to its first await results: getDoc(gameRef) and the checks
JoinGameRead(u) ==
    /\ Quiet
    /\ game # NoGame
    /\ ~room[u]
    /\ joinPc[u] = "idle"
    /\ IF game.player1Id = u
       THEN /\ Mount(u)
            /\ rejected' = NoAttempt
            /\ UNCHANGED joinPc
       ELSE IF \/ (game.player2Id # NullId /\ game.player2Id # u)
               \/ game.status # "waiting"
       THEN /\ Rejects("joinGame", u)
            /\ UNCHANGED << joinPc, sessionVars >>
       ELSE /\ joinPc' = [joinPc EXCEPT ![u] = "write"]
            /\ rejected' = NoAttempt
            /\ UNCHANGED sessionVars
    /\ UNCHANGED << game, otherGame, profile, now, ticks, endPc, endWinner, botPc, botRead,
                    events, triggerVars >>

\* joinGame after the checks: the profile read, updateDoc, onJoinGame
JoinGameWrite(u) ==
    /\ Quiet
    /\ joinPc[u] = "write"
    /\ UpdateDoc([ player2Id |-> u,
                   player2EloAtStart |-> CurrentElo(u),
                   status |-> "ready" ])
    /\ joinPc' = [joinPc EXCEPT ![u] = "idle"]
    /\ Mount(u)
    /\ rejected' = NoAttempt
    /\ UNCHANGED << profile, now, ticks, endPc, endWinner, botPc, botRead,
                    triggerVars >>

(* ------------------------------ GameRoom ------------------------------- *)
\* Effect 2: the remaining time a session derives from a playing record
Remaining(startTime, dateNow) ==
    Max(0, GAME_DURATION_SECONDS - ((dateNow - startTime) \div 1000))

\* Effect 3 runs when isGameActive or timer changed, and calls endGame() when
\* the game is active with the timer at 0
EndGameDue(u, active, t) ==
    /\ << active, t >> # << isGameActive[u], timer[u] >>
    /\ active
    /\ t = 0

\* endGame() is called: its getDoc is pending
CallEndGame(due) ==
    endPc' = [u \in Users |-> IF due[u] /\ endPc[u] = "idle" THEN "read" ELSE endPc[u]]

\* Effect 1 and Effect 2: the snapshot listener delivers the stored record,
\* the previous run's cleanup clears the bot interval, and the game-logic
\* effect derives isGameActive, timer and the bot interval from the record
DeliverSnapshot(u) ==
    /\ Quiet
    /\ room[u]
    /\ game # NoGame
    /\ snap[u] # game
    /\ LET active == CASE game.status = "playing" -> TRUE
                       [] game.status = "finished" -> FALSE
                       [] OTHER -> isGameActive[u]
           t == IF game.status = "playing"
                THEN Remaining(game.startTime, now)
                ELSE timer[u]
       IN  /\ snap' = [snap EXCEPT ![u] = game]
           /\ isGameActive' = [isGameActive EXCEPT ![u] = active]
           /\ timer' = [timer EXCEPT ![u] = t]
           /\ botInterval' = [botInterval EXCEPT ![u] =
                                 game.status = "playing" /\ IsBot(game.opponentType)]
           /\ CallEndGame([v \in Users |-> v = u /\ EndGameDue(u, active, t)])
    /\ rejected' = NoAttempt
    /\ UNCHANGED << game, otherGame, profile, now, ticks, room, joinPc, endWinner, botPc,
                    botRead, events, triggerVars >>

\* Effect 3's interval of a mounted, active session is counting down
Counting(u) == room[u] /\ isGameActive[u] /\ timer[u] > 0

\* The clock advances by TickMs; every countdown that is running has taken
\* its setTimer(prev => prev - 1) steps meanwhile, one per second, and calls
\* endGame() on reaching 0.
TickWithin(cap) ==
    /\ Quiet
    /\ game # NoGame
    /\ ticks < cap
    /\ ticks' = ticks + 1
    /\ now' = now + TickMs
    /\ LET t == [u \in Users |-> IF Counting(u)
                                 THEN Max(0, timer[u] - (TickMs \div 1000))
                                 ELSE timer[u]]
       IN  /\ timer' = t
           /\ CallEndGame([u \in Users |-> Counting(u) /\ t[u] = 0])
    /\ rejected' = NoAttempt
    /\ UNCHANGED << game, otherGame, profile, room, snap, isGameActive, botInterval,
                    joinPc, endWinner, botPc, botRead, events, triggerVars >>

Tick == TickWithin(MaxTicks)

\* a guard that checks the status only
StartGameGuardStatusOnly(u) ==
    /\ snap[u] # NoGame
    /\ snap[u].status = "ready"

\* startGame's guard, on the session's own `game` state
StartGameGuard(u) ==
    /\ snap[u] # NoGame
    /\ snap[u].player1Id = u
    /\ snap[u].status = "ready"

StartGame(u, draws) ==
    /\ Quiet
    /\ room[u]
    /\ IF StartGameGuard(u)
       THEN /\ \E p \in GameProblems(draws) :
                 UpdateDoc([ status |-> "playing",
                             startTime |-> now,
                             currentProblem |-> p.problem,
                             currentAnswer |-> p.answer ])
            /\ rejected' = NoAttempt
       ELSE /\ Rejects("startGame", u)
            /\ UNCHANGED << game, otherGame, events >>
    /\ UNCHANGED << profile, now, ticks, sessionVars, frameVars, triggerVars >>

\* a comparison of the number typed with the answer
InputIsCorrectByValue(u, value) ==
    /\ snap[u] # NoGame
    /\ snap[u].status = "playing"
    /\ FromDigits(value) = snap[u].currentAnswer

\* handleInputChange scores: the input is as long as, and equal to, the
\* decimal string of the snapshot's answer
InputIsCorrect(u, value) ==
    /\ snap[u] # NoGame
    /\ snap[u].status = "playing"
    /\ Len(value) = Len(ToDigits(snap[u].currentAnswer))
    /\ value = ToDigits(snap[u].currentAnswer)

\* a read-modify-write of the whole snapshot
AnswerUpdateWholeSnapshot(u, p) ==
    IF u = snap[u].player1Id
    THEN [snap[u] EXCEPT !.currentProblem = p.problem, !.currentAnswer = p.answer,
                         !.player1Score = snap[u].player1Score + 1]
    ELSE [snap[u] EXCEPT !.currentProblem = p.problem, !.currentAnswer = p.answer,
                         !.player2Score = snap[u].player2Score + 1]

\* the fields handleInputChange writes on a correct answer
AnswerUpdate(u, p) ==
    IF u = snap[u].player1Id
    THEN [ currentProblem |-> p.problem, currentAnswer |-> p.answer,
           player1Score |-> snap[u].player1Score + 1 ]
    ELSE [ currentProblem |-> p.problem, currentAnswer |-> p.answer,
           player2Score |-> snap[u].player2Score + 1 ]

HandleInputChange(u, value, draws, limit) ==
    /\ Quiet
    /\ room[u]
    /\ IF InputIsCorrect(u, value)
       THEN /\ (IF u = snap[u].player1Id THEN snap[u].player1Score
                                        ELSE snap[u].player2Score) < limit
            /\ \E p \in GameProblems(draws) : UpdateDoc(AnswerUpdate(u, p))
            /\ rejected' = NoAttempt
       ELSE /\ Rejects("handleInputChange", u)
            /\ UNCHANGED << game, otherGame, events >>
    /\ UNCHANGED << profile, now, ticks, sessionVars, frameVars, triggerVars >>

\* endGame's decision on the record it has read
Winner(gameData) ==
    IF gameData.player1Score > gameData.player2Score THEN gameData.player1Id
    ELSE IF gameData.player2Score > gameData.player1Score THEN gameData.player2Id
    ELSE NullId

\* endGame's check of the record it has read
EndGameGuard(currentDoc) == currentDoc.status = "playing"

\* endGame: getDoc returns
EndGameRead(u) ==
    /\ Quiet
    /\ endPc[u] = "read"
    /\ IF EndGameGuard(game)
       THEN /\ endPc' = [endPc EXCEPT ![u] = "write"]
            /\ endWinner' = [endWinner EXCEPT ![u] = Winner(game)]
            /\ rejected' = NoAttempt
       ELSE /\ endPc' = [endPc EXCEPT ![u] = "idle"]
            /\ Rejects("endGame", u)
            /\ UNCHANGED endWinner
    /\ UNCHANGED << game, otherGame, profile, now, ticks, sessionVars, joinPc, botPc,
                    botRead, events, triggerVars >>

\* endGame: updateDoc lands
EndGameWrite(u) ==
    /\ Quiet
    /\ endPc[u] = "write"
    /\ UpdateDoc([ status |-> "finished", winnerId |-> endWinner[u] ])
    /\ endPc' = [endPc EXCEPT ![u] = "idle"]
    /\ endWinner' = [endWinner EXCEPT ![u] = NullId]
    /\ rejected' = NoAttempt
    /\ UNCHANGED << profile, now, ticks, sessionVars, joinPc, botPc, botRead,
                    triggerVars >>

\* the bot interval fires: getDoc returns
BotTickRead(u, limit) ==
    /\ Quiet
    /\ botInterval[u]
    /\ botPc[u] = "idle"
    /\ IF game.status = "playing"
       THEN /\ game.player2Score < limit
            /\ botPc' = [botPc EXCEPT ![u] = "write"]
            /\ botRead' = [botRead EXCEPT ![u] = game.player2Score]
            /\ rejected' = NoAttempt
       ELSE /\ Rejects("botTick", u)
            /\ UNCHANGED << botPc, botRead >>
    /\ UNCHANGED << game, otherGame, profile, now, ticks, sessionVars, joinPc, endPc,
                    endWinner, events, triggerVars >>

\* the bot interval callback: updateDoc lands
BotTickWrite(u) ==
    /\ Quiet
    /\ botPc[u] = "write"
    /\ UpdateDoc([ player2Score |-> botRead[u] + 1 ])
    /\ botPc' = [botPc EXCEPT ![u] = "idle"]
    /\ botRead' = [botRead EXCEPT ![u] = 0]
    /\ rejected' = NoAttempt
    /\ UNCHANGED << profile, now, ticks, sessionVars, joinPc, endPc, endWinner,
                    triggerVars >>

\* onGameEnd from the results box: the GameRoom unmounts, its effects'
\* cleanups run and its state is dropped
LeaveRoom(u) ==
    /\ Quiet
    /\ room[u]
    /\ snap[u] # NoGame
    /\ snap[u].status = "finished"
    /\ room' = [room EXCEPT ![u] = FALSE]
    /\ snap' = [snap EXCEPT ![u] = NoGame]
    /\ isGameActive' = [isGameActive EXCEPT ![u] = FALSE]
    /\ timer' = [timer EXCEPT ![u] = GAME_DURATION_SECONDS]
    /\ botInterval' = [botInterval EXCEPT ![u] = FALSE]
    /\ rejected' = NoAttempt
    /\ UNCHANGED << game, otherGame, profile, now, ticks, frameVars, events, triggerVars >>

(* --------------------------- Rating Trigger ---------------------------- *)
\* await player2ProfileRef.get() is still to come
ReadsPlayer2(opponentType) == ~IsBot(opponentType) /\ opponentType = "human"

\* a trigger that takes the ratings from the snapshots on the GameRecord
FrameFromSnapshots(e, delivery) ==
    [ player1Id |-> e.after.player1Id,
      player2Id |-> e.after.player2Id,
      player1Score |-> e.after.player1Score,
      player2Score |-> e.after.player2Score,
      opponentType |-> e.after.opponentType,
      pc |-> IF ReadsPlayer2(e.after.opponentType) THEN "readP2" ELSE "commit",
      player1CurrentElo |-> e.after.player1EloAtStart,
      player2CurrentElo |-> e.after.player2EloAtStart,
      delivery |-> delivery,
      ref |-> e.ref ]

\* What calculateEloOnGameEnd holds once its guard has passed and
\* player1ProfileRef.get() has returned: the fields of afterData it uses,
\* player 1's rating, and the fixed rating of a bot.
Frame(e, delivery) ==
    [ player1Id |-> e.after.player1Id,
      player2Id |-> e.after.player2Id,
      player1Score |-> e.after.player1Score,
      player2Score |-> e.after.player2Score,
      opponentType |-> e.after.opponentType,
      pc |-> IF ReadsPlayer2(e.after.opponentType) THEN "readP2" ELSE "commit",
      player1CurrentElo |-> CurrentElo(e.after.player1Id),
      player2CurrentElo |-> CASE e.after.opponentType = "bot-1000" -> BOT_1000_ELO
                              [] e.after.opponentType = "bot-2000" -> BOT_2000_ELO
                              [] OTHER -> STARTING_ELO,
      delivery |-> delivery,
      ref |-> e.ref ]

\* calculateEloOnGameEnd is invoked with the change event e, up to the
\* return of its first read
TriggerEnter(e, delivery) ==
    IF TriggerGuard(e)
    THEN /\ Quiet
         /\ Cardinality(trig) < MaxFrames
         /\ trig' = trig \cup {Frame(e, delivery)}
         /\ rejected' = NoAttempt
    ELSE /\ Rejects("trigger", "exit")
         /\ UNCHANGED trig

\* the delivery of a change event
TriggerDeliver(e) ==
    /\ e \in events
    /\ events' = events \ {e}
    /\ TriggerEnter(e, redelivered)
    /\ UNCHANGED << game, otherGame, profile, now, ticks, sessionVars, frameVars,
                    redelivered, audit >>

\* at-least-once delivery: the platform delivers the event and will deliver
\* it again
TriggerDeliverFirst(e) ==
    /\ e \in events
    /\ redelivered < MaxRedeliver
    /\ redelivered' = redelivered + 1
    /\ TriggerEnter(e, redelivered)
    /\ UNCHANGED << game, otherGame, profile, now, ticks, sessionVars, frameVars, events,
                    audit >>

\* await player2ProfileRef.get() of a human opponent
TriggerReadP2(f) ==
    /\ Quiet
    /\ f \in trig
    /\ f.pc = "readP2"
    /\ trig' = (trig \ {f}) \cup
         { [f EXCEPT !.player2CurrentElo = CurrentElo(f.player2Id),
                     !.pc = "commit"] }
    /\ rejected' = NoAttempt
    /\ UNCHANGED << game, otherGame, profile, now, ticks, sessionVars, frameVars, events,
                    redelivered, audit >>

\* scoreA, as twice its value
ScoreA2(f) ==
    IF f.player1Score > f.player2Score THEN 2
    ELSE IF f.player2Score > f.player1Score THEN 0
    ELSE 1

\* a batch that sets player 2's RatingRecord whatever the opponent is
BatchProfilesAnyOpponent(f, new) ==
    [u \in DOMAIN profile |->
        IF u = f.player1Id THEN new.newEloA
        ELSE IF u = f.player2Id THEN new.newEloB
        ELSE profile[u]]

\* the RatingRecords after the batch of frame f
BatchProfiles(f, new) ==
    [u \in DOMAIN profile |->
        IF u = f.player1Id THEN new.newEloA
        ELSE IF f.opponentType = "human" /\ u = f.player2Id THEN new.newEloB
        ELSE profile[u]]

\* a batch that also moves the new rating into player1EloAtStart
BatchGameUpdateOverStartElo(new) ==
    [ eloCalculated |-> TRUE,
      player1NewElo |-> new.newEloA,
      player2NewElo |-> new.newEloB,
      player1EloAtStart |-> new.newEloA ]

\* a batch that leaves the flag out
BatchGameUpdateWithoutFlag(new) ==
    [ player1NewElo |-> new.newEloA,
      player2NewElo |-> new.newEloB ]

\* the fields the batch writes to the GameRecord
BatchGameUpdate(new) ==
    [ eloCalculated |-> TRUE,
      player1NewElo |-> new.newEloA,
      player2NewElo |-> new.newEloB ]

\* await batch.commit(): both RatingRecords and the GameRecord in one write
TriggerCommit(f) ==
    /\ Quiet
    /\ f \in trig
    /\ f.pc = "commit"
    /\ LET new == calculateNewElo(f.player1CurrentElo, f.player2CurrentElo,
                                  ScoreA2(f), ELO_K_FACTOR)
       IN  /\ profile' = BatchProfiles(f, new)
           /\ UpdateRecord(f.ref, BatchGameUpdate(new))
    /\ trig' = trig \ {f}
    /\ rejected' = NoAttempt
    /\ UNCHANGED << now, ticks, sessionVars, frameVars, redelivered, audit >>

\* a read or the commit throws: the catch block logs, nothing is written
TriggerFail(f) ==
    /\ Quiet
    /\ f \in trig
    /\ trig' = trig \ {f}
    /\ Rejects("trigger", "error")
    /\ UNCHANGED << game, otherGame, profile, now, ticks, sessionVars, frameVars, events,
                    redelivered, audit >>

(* --------------------------- specification ----------------------------- *)
\* the identities with a session in the two-party game
Players == {"u1", "u2"}

\* u1 has no RatingRecord yet (AuthWrapper's setDoc may fail), u2 has a rating
\* from earlier games, u3 the starting rating; a bot has no RatingRecord
InitProfile == [u \in Users \cup BotIds |->
                   CASE u = "u1" -> NoProfile
                     [] u = "u2" -> 216
                     [] u = "u3" -> STARTING_ELO
                     [] OTHER -> NoProfile]

InitWith(recording) ==
    /\ game = NoGame
    /\ otherGame = NoGame
    /\ profile = InitProfile
    /\ now = 0
    /\ ticks = 0
    /\ room = [u \in Users |-> FALSE]
    /\ snap = [u \in Users |-> NoGame]
    /\ isGameActive = [u \in Users |-> FALSE]
    /\ timer = [u \in Users |-> GAME_DURATION_SECONDS]
    /\ botInterval = [u \in Users |-> FALSE]
    /\ joinPc = [u \in Users |-> "idle"]
    /\ endPc = [u \in Users |-> "idle"]
    /\ endWinner = [u \in Users |-> NullId]
    /\ botPc = [u \in Users |-> "idle"]
    /\ botRead = [u \in Users |-> 0]
    /\ events = {}
    /\ trig = {}
    /\ redelivered = 0
    /\ audit = recording
    /\ rejected = NoAttempt

Init == InitWith(FALSE)

\* the steps of the sessions of the identities in S, with generateProblem
\* drawing from `draws` and no score raised beyond `limit`
SessionNext(S, draws, limit) ==
    \/ \E opponentType \in OpponentTypes : CreateGame(opponentType)
    \/ \E u \in S : JoinGameRead(u)
    \/ \E u \in S : JoinGameWrite(u)
    \/ \E u \in S : DeliverSnapshot(u)
    \/ Tick
    \/ \E u \in S : StartGame(u, draws)
    \/ \E u \in S, value \in Inputs : HandleInputChange(u, value, draws, limit)
    \/ \E u \in S : EndGameRead(u)
    \/ \E u \in S : EndGameWrite(u)
    \/ \E u \in S : BotTickRead(u, limit)
    \/ \E u \in S : BotTickWrite(u)
    \/ \E u \in S : LeaveRoom(u)

\* the steps of the trigger when every read and commit succeeds
TriggerNext ==
    \/ \E e \in events : TriggerDeliver(e)
    \/ \E f \in trig : TriggerReadP2(f)
    \/ \E f \in trig : TriggerCommit(f)

Next == SessionNext(Players, OneDraw, MaxScore) \/ TriggerNext

\* The game of a creator and one opponent (a second player or a bot), and
\* the trigger: every change event is delivered exactly once, every store
\* operation succeeds.
Spec == Init /\ [][Next]_vars

\* the same, recording the early returns of the handlers
InitAudit == InitWith(TRUE)
SpecAudit == InitAudit /\ [][Next]_vars

\* a third identity that has the game's id and attempts to join; it takes no
\* other step
Late == "u3"

NextThree ==
    \/ Next
    \/ JoinGameRead(Late)
    \/ JoinGameWrite(Late)

\* the two-party game with a third identity racing to join it
SpecThree == Init /\ [][NextThree]_vars

\* the first minute of a human game that two identities race to join: all
\* three sessions receive snapshots and answer; every change event is
\* delivered to the trigger, which returns early on each
NextRivals ==
    \/ CreateGame("human")
    \/ \E u \in Users : JoinGameRead(u)
    \/ \E u \in Users : JoinGameWrite(u)
    \/ \E u \in Users : DeliverSnapshot(u)
    \/ \E u \in Users : StartGame(u, OneDraw)
    \/ \E u \in Users, value \in Inputs :
          HandleInputChange(u, value, OneDraw, RaceScore)
    \/ \E e \in events : TriggerDeliver(e)

SpecRivals == Init /\ [][NextRivals]_vars

\* a game of the creator against the 1000-rated bot, played up to
\* FinalScore answers a side, and the trigger
NextBotGame ==
    \/ CreateGame("bot-1000")
    \/ DeliverSnapshot(Creator)
    \/ Tick
    \/ StartGame(Creator, OneDraw)
    \/ \E value \in Inputs : HandleInputChange(Creator, value, OneDraw, FinalScore)
    \/ EndGameRead(Creator)
    \/ EndGameWrite(Creator)
    \/ BotTickRead(Creator, FinalScore)
    \/ BotTickWrite(Creator)
    \/ LeaveRoom(Creator)
    \/ \E e \in events : TriggerDeliver(e)
    \/ \E f \in trig : TriggerCommit(f)

SpecBotGame == Init /\ [][NextBotGame]_vars

\* startGame pressed while the clock still has a whole game ahead of it
StartGameInTime(u) ==
    /\ now + GAME_DURATION_SECONDS * 1000 <= LiveTicks * TickMs
    /\ StartGame(u, OneDraw)

\* a human game that two identities try to join, by the clock: nobody
\* answers, the sessions of the creator and of u2 stay mounted until they
\* have seen the game finished
NextTimed ==
    \/ CreateGame("human")
    \/ \E u \in Users : JoinGameRead(u)
    \/ \E u \in Users : JoinGameWrite(u)
    \/ \E u \in Players : DeliverSnapshot(u)
    \/ TickWithin(LiveTicks)
    \/ StartGameInTime(Creator)
    \/ \E u \in Players : EndGameRead(u)
    \/ \E u \in Players : EndGameWrite(u)
    \/ \E u \in Players : LeaveRoom(u)
    \/ TriggerNext

\* ticks and snapshot deliveries are scheduled, every store read and write
\* that was issued completes, every change event is delivered
FairTimed ==
    /\ \A u \in Players : WF_vars(DeliverSnapshot(u))
    /\ WF_vars(TickWithin(LiveTicks))
    /\ \A u \in Users : WF_vars(JoinGameWrite(u))
    /\ \A u \in Players : WF_vars(EndGameRead(u))
    /\ \A u \in Players : WF_vars(EndGameWrite(u))
    /\ WF_vars(TriggerNext)

SpecTimed == Init /\ [][NextTimed]_vars /\ FairTimed

(* --------------------- the rating engine on its own -------------------- *)
\* the ratings the engine is applied to
Ratings == {200, 216, 600, 1000, 1400}

\* the RatingRecords of u1 and u2 hold any two of the ratings
InitRatings ==
    \E eloA \in Ratings, eloB \in Ratings :
        /\ profile = [InitProfile EXCEPT !["u1"] = eloA, !["u2"] = eloB]
        /\ game = NoGame
        /\ otherGame = NoGame
        /\ now = 0
        /\ ticks = 0
        /\ room = [u \in Users |-> FALSE]
        /\ snap = [u \in Users |-> NoGame]
        /\ isGameActive = [u \in Users |-> FALSE]
        /\ timer = [u \in Users |-> GAME_DURATION_SECONDS]
        /\ botInterval = [u \in Users |-> FALSE]
        /\ joinPc = [u \in Users |-> "idle"]
        /\ endPc = [u \in Users |-> "idle"]
        /\ endWinner = [u \in Users |-> NullId]
        /\ botPc = [u \in Users |-> "idle"]
        /\ botRead = [u \in Users |-> 0]
        /\ events = {}
        /\ trig = {}
        /\ redelivered = 0
        /\ audit = FALSE
        /\ rejected = NoAttempt

\* calculateNewElo applied to the ratings of u1 (A) and u2 (B); the results
\* replace them
ApplyCalculateNewElo(scoreA2, kFactor) ==
    /\ ticks < MaxTicks
    /\ ticks' = ticks + 1
    /\ LET new == calculateNewElo(profile["u1"], profile["u2"], scoreA2, kFactor)
       IN  profile' = [profile EXCEPT !["u1"] = new.newEloA,
                                      !["u2"] = new.newEloB]
    /\ UNCHANGED << game, otherGame, now, sessionVars, frameVars, events, triggerVars,
                    rejected >>

NextRatings ==
    \E scoreA2 \in 0..2, kFactor \in KFactors :
        ApplyCalculateNewElo(scoreA2, kFactor)

SpecRatings == InitRatings /\ [][NextRatings]_vars

\* a human game whose two players type answers to the problems "4 + 3" and
\* "2 * 6", up to RaceScore each, with the early returns recorded
NextAnswers ==
    \/ CreateGame("human")
    \/ \E u \in Players : JoinGameRead(u)
    \/ \E u \in Players : JoinGameWrite(u)
    \/ \E u \in Players : DeliverSnapshot(u)
    \/ \E u \in Players : StartGame(u, TwoDraws)
    \/ \E u \in Players, value \in Inputs :
          HandleInputChange(u, value, TwoDraws, RaceScore)
    \/ \E e \in events : TriggerDeliver(e)

SpecAnswers == InitAudit /\ [][NextAnswers]_vars

(* ------------------------ the trigger on its own ----------------------- *)
Statuses == {"waiting", "ready", "playing", "finished"}

\* a GameRecord of u1 against u2 or a bot, in the given status
RecordIn(opponentType, status, score1, score2, calculated) ==
    LET created == NewGame(Creator, opponentType, STARTING_ELO, 0)
        bound == IF opponentType = "human" /\ status # "waiting"
                 THEN Merge(created, [player2Id |-> "u2", player2EloAtStart |-> 216])
                 ELSE created
        started == IF status \in {"playing", "finished"}
                   THEN LET p == CHOOSE q \in GameProblems(OneDraw) : TRUE
                        IN  Merge(bound, [ startTime |-> 0,
                                           currentProblem |-> p.problem,
                                           currentAnswer |-> p.answer,
                                           player1Score |-> score1,
                                           player2Score |-> score2 ])
                   ELSE bound
        rated == IF calculated
                 THEN Merge(started, BatchGameUpdate(
                          calculateNewElo(started.player1EloAtStart,
                                          started.player2EloAtStart,
                                          ScoreA2(started), ELO_K_FACTOR)))
                 ELSE started
    IN  Merge(rated, [ status |-> status,
                       winnerId |-> IF status = "finished" THEN Winner(started)
                                                           ELSE NullId ])

\* The trigger is handed one change event (before, after): any two statuses
\* (a record is not started before a second participant is bound), any
\* scores, eloCalculated set or not in `after`.
InitTrigger ==
    \E opponentType \in OpponentTypes, before \in Statuses, after \in Statuses,
       score1 \in 0..MaxScore, score2 \in 0..MaxScore, calculated \in BOOLEAN :
        /\ ~(opponentType # "human" /\ "waiting" \in {before, after})
        /\ ~(before = "waiting" /\ after \in {"playing", "finished"})
        /\ game = RecordIn(opponentType, after, score1, score2, calculated)
        /\ otherGame = NoGame
        /\ events = {[ before |-> RecordIn(opponentType, before, score1, score2, FALSE),
                       after |-> RecordIn(opponentType, after, score1, score2, calculated),
                       ref |-> "game" ]}
        /\ profile = InitProfile
        /\ now = 0
        /\ ticks = 0
        /\ room = [u \in Users |-> FALSE]
        /\ snap = [u \in Users |-> NoGame]
        /\ isGameActive = [u \in Users |-> FALSE]
        /\ timer = [u \in Users |-> GAME_DURATION_SECONDS]
        /\ botInterval = [u \in Users |-> FALSE]
        /\ joinPc = [u \in Users |-> "idle"]
        /\ endPc = [u \in Users |-> "idle"]
        /\ endWinner = [u \in Users |-> NullId]
        /\ botPc = [u \in Users |-> "idle"]
        /\ botRead = [u \in Users |-> 0]
        /\ trig = {}
        /\ redelivered = 0
        /\ audit = TRUE
        /\ rejected = NoAttempt

\* the steps of the trigger under at-least-once delivery, with reads and
\* commits that may fail
TriggerNextFaulty ==
    \/ TriggerNext
    \/ \E e \in events : TriggerDeliverFirst(e)
    \/ \E f \in trig : TriggerFail(f)

SpecTrigger == InitTrigger /\ [][TriggerNextFaulty]_vars

(* ------------------- the problem generator on its own ------------------ *)
\* a game of u1 against the 1000-rated bot, playing
InitProblems ==
    /\ game = RecordIn("bot-1000", "playing", 0, 0, FALSE)
    /\ otherGame = NoGame
    /\ profile = InitProfile
    /\ now = 0
    /\ ticks = 0
    /\ room = [u \in Users |-> FALSE]
    /\ snap = [u \in Users |-> NoGame]
    /\ isGameActive = [u \in Users |-> FALSE]
    /\ timer = [u \in Users |-> GAME_DURATION_SECONDS]
    /\ botInterval = [u \in Users |-> FALSE]
    /\ joinPc = [u \in Users |-> "idle"]
    /\ endPc = [u \in Users |-> "idle"]
    /\ endWinner = [u \in Users |-> NullId]
    /\ botPc = [u \in Users |-> "idle"]
    /\ botRead = [u \in Users |-> 0]
    /\ events = {}
    /\ trig = {}
    /\ redelivered = 0
    /\ audit = FALSE
    /\ rejected = NoAttempt

\* generateProblem() is called once with the draws d; its result replaces
\* the problem and the answer of the record
GenerateProblem(d) ==
    /\ ticks = 0
    /\ ticks' = 1
    /\ LET p == generateProblem(d[1], d[2], d[3], d[4])
       IN  game' = Merge(game, [ currentProblem |-> p.problem,
                                 currentAnswer |-> p.answer ])
    /\ UNCHANGED << otherGame, profile, now, sessionVars, frameVars, events, triggerVars,
                    rejected >>

NextProblems == \E d \in AllDraws : GenerateProblem(d)

SpecProblems == InitProblems /\ [][NextProblems]_vars

\* Two finished games of the same creator u1 whose change events are both
\* pending: `game` is the human game against u2, `otherGame` another game of
\* u1 (against u2 again, or a bot), with any scores. The platform runs one
\* invocation of the trigger per event, and the invocations interleave at
\* their awaits.
InitTwoGames ==
    \E opponentType \in OpponentTypes,
       score1 \in 0..MaxScore, score2 \in 0..MaxScore,
       otherScore1 \in 0..MaxScore, otherScore2 \in 0..MaxScore :
        /\ game = RecordIn("human", "finished", score1, score2, FALSE)
        /\ otherGame = RecordIn(opponentType, "finished", otherScore1, otherScore2, FALSE)
        /\ events =
             { [ before |-> RecordIn("human", "playing", score1, score2, FALSE),
                 after |-> RecordIn("human", "finished", score1, score2, FALSE),
                 ref |-> "game" ],
               [ before |-> RecordIn(opponentType, "playing", otherScore1, otherScore2, FALSE),
                 after |-> RecordIn(opponentType, "finished", otherScore1, otherScore2, FALSE),
                 ref |-> "otherGame" ] }
        /\ profile = InitProfile
        /\ now = 0
        /\ ticks = 0
        /\ room = [u \in Users |-> FALSE]
        /\ snap = [u \in Users |-> NoGame]
        /\ isGameActive = [u \in Users |-> FALSE]
        /\ timer = [u \in Users |-> GAME_DURATION_SECONDS]
        /\ botInterval = [u \in Users |-> FALSE]
        /\ joinPc = [u \in Users |-> "idle"]
        /\ endPc = [u \in Users |-> "idle"]
        /\ endWinner = [u \in Users |-> NullId]
        /\ botPc = [u \in Users |-> "idle"]
        /\ botRead = [u \in Users |-> 0]
        /\ trig = {}
        /\ redelivered = 0
        /\ audit = FALSE
        /\ rejected = NoAttempt

\* every event is delivered once, every read and commit succeeds
SpecTwoGames == InitTwoGames /\ [][TriggerNext]_vars

\* Date.now() of the session that started the game, as stored in startTime
StartTimes == {60000, 120000}

\* Date.now() of a watching session when the playing record reaches it: its
\* clock is set independently of the one that stamped startTime, so it may
\* be behind it, equal to it or ahead of it
LocalClocks == {0, 59999, 60000, 60999, 61000, 120000, 180000, 240000}

\* A playing record stamped by one clock is about to reach the mounted
\* sessions of its two participants, which read the clock `now`.
InitClocks ==
    \E opponentType \in OpponentTypes, startTime \in StartTimes,
       dateNow \in LocalClocks :
        /\ game = Merge(RecordIn(opponentType, "playing", 0, 0, FALSE),
                        [startTime |-> startTime])
        /\ otherGame = NoGame
        /\ now = dateNow
        /\ profile = InitProfile
        /\ ticks = 0
        /\ room = [u \in Users |-> u \in Players]
        /\ snap = [u \in Users |-> NoGame]
        /\ isGameActive = [u \in Users |-> FALSE]
        /\ timer = [u \in Users |-> GAME_DURATION_SECONDS]
        /\ botInterval = [u \in Users |-> FALSE]
        /\ joinPc = [u \in Users |-> "idle"]
        /\ endPc = [u \in Users |-> "idle"]
        /\ endWinner = [u \in Users |-> NullId]
        /\ botPc = [u \in Users |-> "idle"]
        /\ botRead = [u \in Users |-> 0]
        /\ events = {}
        /\ trig = {}
        /\ redelivered = 0
        /\ audit = FALSE
        /\ rejected = NoAttempt

NextClocks ==
    \/ \E u \in Players : DeliverSnapshot(u)
    \/ Tick

\* the sessions receive the playing record and count down
SpecClocks == InitClocks /\ [][NextClocks]_vars

(* ------------------------------ properties ----------------------------- *)
\* the score field of identity u in a record
ScoreOf(rec, u) == IF u = rec.player1Id THEN rec.player1Score ELSE rec.player2Score

\* C1: in a playing human game, when the other participant's correct answer
\* has landed and is not yet in u's snapshot, and u now submits a correct
\* answer from that snapshot, the stored record has both scores one above
\* the snapshot's: neither increment is lost.
C1_BothAnswersCount ==
    [][ \A u \in Players, v \in Players :
          ( /\ u # v
            /\ snap[u] # NoGame
            /\ snap[u].status = "playing"
            /\ snap[u].opponentType = "human"
            /\ ScoreOf(game, v) = ScoreOf(snap[u], v) + 1
            /\ ScoreOf(game, u) = ScoreOf(snap[u], u)
            /\ \E value \in Inputs :
                  InputIsCorrect(u, value) /\ HandleInputChange(u, value, OneDraw, MaxScore) )
          => /\ game'.player1Score = snap[u].player1Score + 1
             /\ game'.player2Score = snap[u].player2Score + 1 ]_vars

\* both participants hold the same playing snapshot and both answers have landed
C1_BothLanded ==
    /\ snap["u1"] # NoGame
    /\ snap["u1"] = snap["u2"]
    /\ snap["u1"].status = "playing"
    /\ snap["u1"].opponentType = "human"
    /\ game.player1Score = snap["u1"].player1Score + 1
    /\ game.player2Score = snap["u1"].player2Score + 1

\* C2: when two sessions race to finalize a playing game, exactly one of them
\* writes status = finished and winnerId: every endGame write lands on a
\* record that is still playing.
C2_OneFinishWrite ==
    [][ \A u \in Players :
          (endPc[u] = "write" /\ endPc'[u] = "idle") => game.status = "playing" ]_vars

\* C3: in every state with status finished, winnerId agrees with the stored
\* scores by strict comparison (null iff the scores are equal).
C3_WinnerAgreesWithScores ==
    (game # NoGame /\ game.status = "finished") =>
        game.winnerId = ( IF game.player1Score > game.player2Score THEN game.player1Id
                          ELSE IF game.player2Score > game.player1Score THEN game.player2Id
                          ELSE NullId )

\* C4: once the stored status is finished, no step changes player1Score,
\* player2Score, currentProblem or currentAnswer.
C4_FinishedIsTerminal ==
    [][ (game # NoGame /\ game.status = "finished") =>
           /\ game'.player1Score = game.player1Score
           /\ game'.player2Score = game.player2Score
           /\ game'.currentProblem = game.currentProblem
           /\ game'.currentAnswer = game.currentAnswer ]_vars

\* C5: every change of the stored status is one of waiting -> ready,
\* ready -> playing, playing -> finished.
C5_StatusOnlyForward ==
    [][ (game # NoGame /\ game'.status # game.status) =>
           << game.status, game'.status >> \in
               { << "waiting", "ready" >>, << "ready", "playing" >>,
                 << "playing", "finished" >> } ]_vars

\* C6: when the same finish transition is delivered twice, the ratings are
\* written once: after eloCalculated is set, no delivery changes a
\* RatingRecord or a field of the GameRecord.
C6_SecondDeliveryIsNoOp ==
    [][ (game # NoGame /\ game.eloCalculated) =>
           (profile' = profile /\ game' = game) ]_vars

\* C7: with every change event delivered exactly once, eloCalculated is set
\* once and stays set, and player1NewElo / player2NewElo never change after
\* they have been written.
C7_RatingsWrittenOnce ==
    [][ (game # NoGame /\ game.eloCalculated) =>
           /\ game'.eloCalculated
           /\ game'.player1NewElo = game.player1NewElo
           /\ game'.player2NewElo = game.player2NewElo ]_vars

\* C8: the trigger never partially applies.  Every step that changes a
\* RatingRecord or the GameRecord sets eloCalculated, both new-rating fields
\* and the RatingRecord of player 1 (and of player 2 in a human game, of
\* nobody else) together; a failing read or commit changes nothing.
C8_AllOrNothing ==
    [][ /\ (profile' # profile \/ game' # game) =>
             /\ game'.eloCalculated
             /\ game'.player1NewElo # NullNum
             /\ game'.player2NewElo # NullNum
             /\ profile'[game.player1Id] = game'.player1NewElo
             /\ \A u \in Users \ {game.player1Id} :
                   profile'[u] = IF game.opponentType = "human" /\ u = game.player2Id
                                 THEN game'.player2NewElo
                                 ELSE profile[u]
        /\ (\E f \in trig : TriggerFail(f)) =>
             (profile' = profile /\ game' = game) ]_vars

\* a human game whose ratings and flag have been committed together
C8_Committed ==
    /\ game.opponentType = "human"
    /\ game.eloCalculated
    /\ profile # InitProfile
    /\ profile[game.player1Id] = game.player1NewElo
    /\ profile[game.player2Id] = game.player2NewElo

\* C9: on a delivery the trigger proceeds exactly when the previous status
\* is not finished, the new status is finished and the new record's
\* eloCalculated is false; on every other pair it starts nothing and writes
\* nothing.
C9_ProceedsOnlyIntoFinished ==
    [][ \A e \in events :
          (TriggerDeliver(e) \/ TriggerDeliverFirst(e)) =>
             IF /\ e.before.status # "finished"
                /\ e.after.status = "finished"
                /\ ~e.after.eloCalculated
             THEN trig' # trig /\ game' = game /\ profile' = profile
             ELSE trig' = trig /\ game' = game /\ profile' = profile ]_vars

\* the trigger has returned early on a pair whose new record is finished
\* with eloCalculated false, because the previous record was finished too
C9_ExitedOnFinishedPair ==
    /\ rejected = << "trigger", "exit" >>
    /\ game.status = "finished"
    /\ ~game.eloCalculated
    /\ events = {}
    /\ trig = {}
    /\ profile = InitProfile

C11_StartTimeSetOnce ==
    [][ (game # NoGame /\ game.startTime # NullNum) =>
           game'.startTime = game.startTime ]_vars

\* C12: a joinGame write by identity u that lands on a stored record which
\* has another identity bound as player 2, or whose status is not waiting,
\* leaves the GameRecord unchanged.
C12_LateJoinIsRejected ==
    [][ \A u \in Users :
          ( /\ joinPc[u] = "write"
            /\ joinPc'[u] = "idle"
            /\ \/ game.player2Id \notin {NullId, u}
               \/ game.status # "waiting" )
          => game' = game ]_vars

\* C13: once player2Id is non-null, neither player2Id nor player2EloAtStart
\* changes.
C13_Player2BoundOnce ==
    [][ (game # NoGame /\ game.player2Id # NullId) =>
           /\ game'.player2Id = game.player2Id
           /\ game'.player2EloAtStart = game.player2EloAtStart ]_vars

\* C14: the stored scores are non-negative and no step lowers one of them.
C14_ScoresNeverDecrease ==
    [][ game # NoGame =>
           /\ game'.player1Score >= game.player1Score
           /\ game'.player2Score >= game.player2Score
           /\ game'.player1Score >= 0
           /\ game'.player2Score >= 0 ]_vars

\* the value of the expression a problem shows
ValueOf(problem) ==
    CASE problem.operation = "+" -> problem.num1 + problem.num2
      [] problem.operation = "-" -> problem.num1 - problem.num2
      [] problem.operation = "*" -> problem.num1 * problem.num2
      [] problem.operation = "/" -> problem.num1 \div problem.num2
      [] OTHER -> NullNum

\* C15: currentProblem and currentAnswer are both null exactly while the
\* status is waiting or ready, and otherwise both non-null with currentAnswer
\* the value of the expression in currentProblem.
C15_ProblemAnswerPaired ==
    game # NoGame =>
        IF game.status \in {"waiting", "ready"}
        THEN game.currentProblem = NullProblem /\ game.currentAnswer = NullNum
        ELSE /\ game.currentProblem # NullProblem
             /\ game.currentAnswer # NullNum
             /\ game.currentAnswer = ValueOf(game.currentProblem)

\* C16: winnerId is set once, at the transition into finished: a step
\* changes it only from null and only by finishing the game, and once the
\* status is finished no step changes it.
C16_WinnerSetOnce ==
    [][ (game # NoGame /\ game'.winnerId # game.winnerId) =>
           /\ game.winnerId = NullId
           /\ game.status # "finished"
           /\ game'.status = "finished" ]_vars

\* C17: when the trigger proceeds on a change event, the scoreA it derives
\* from the new record's scores agrees with the new record's winnerId:
\* 1 iff player 1 won, 0 iff player 2 won, 1/2 iff winnerId is null.
C17_ScoreAgreesWithWinner ==
    [][ \A e \in events :
          (TriggerDeliver(e) /\ trig' # trig) =>
             \A f \in trig' \ trig :
                /\ (ScoreA2(f) = 2) = (e.after.winnerId = e.after.player1Id)
                /\ (ScoreA2(f) = 0) = (e.after.winnerId = e.after.player2Id)
                /\ (ScoreA2(f) = 1) = (e.after.winnerId = NullId) ]_vars

\* C18: the commit of the trigger writes player 2's RatingRecord only in a
\* human game. In a bot game the commit creates or changes no RatingRecord
\* but player 1's: the bot identity still has none. In a human game the one
\* commit leaves both players with a RatingRecord, holding the ratings it
\* stores on the GameRecord.
C18_BotHasNoRatingRecord ==
    [][ \A f \in trig : TriggerCommit(f) =>
          /\ profile'[f.player1Id] = game'.player1NewElo
          /\ profile'[f.player1Id] # NoProfile
          /\ IF f.opponentType = "human"
             THEN /\ profile'[f.player2Id] = game'.player2NewElo
                  /\ profile'[f.player2Id] # NoProfile
                  /\ \A u \in DOMAIN profile \ {f.player1Id, f.player2Id} :
                        profile'[u] = profile[u]
             ELSE /\ f.player2Id \in BotIds
                  /\ profile'[f.player2Id] = NoProfile
                  /\ \A u \in DOMAIN profile \ {f.player1Id} :
                        profile'[u] = profile[u] ]_vars

\* a rated bot game: player 1 has a RatingRecord, the bot identity has none
C18_BotGameRated ==
    /\ IsBot(game.opponentType)
    /\ game.eloCalculated
    /\ trig = {}
    /\ profile[game.player1Id] # InitProfile[game.player1Id]
    /\ profile[game.player1Id] = game.player1NewElo
    /\ profile[game.player2Id] = NoProfile

\* C19: a game against the 1000-rated bot by a player rated 200, ended by
\* the timer at 5:3: endGame, reading the playing record at 5:3, decides for
\* player 1; its write makes the record finished with the winner it decided;
\* the trigger, run on the finished 5:3 record with player 1 rated 200,
\* commits eloCalculated = true and player1NewElo = 232.
C19_BotGameEndToEnd ==
    [][ /\ ( /\ EndGameRead(Creator)
             /\ game.opponentType = "bot-1000"
             /\ game.status = "playing"
             /\ game.player1Score = 5 /\ game.player2Score = 3 )
          => ( endPc'[Creator] = "write" /\ endWinner'[Creator] = game.player1Id )
        /\ EndGameWrite(Creator)
          => ( /\ game'.status = "finished"
               /\ game'.winnerId = endWinner[Creator]
               /\ game'.player1Score = game.player1Score
               /\ game'.player2Score = game.player2Score )
        /\ \A f \in trig :
             ( /\ TriggerCommit(f)
               /\ f.opponentType = "bot-1000"
               /\ f.player1Score = 5 /\ f.player2Score = 3
               /\ f.player1CurrentElo = 200 )
             => ( /\ game'.eloCalculated
                  /\ game'.player1NewElo = 232
                  /\ profile'[f.player1Id] = 232 ) ]_vars

\* the bot game ended at 5:3 for player 1 and rated
C19_RatedAt232 ==
    /\ game # NoGame
    /\ game.opponentType = "bot-1000"
    /\ game.status = "finished"
    /\ game.player1Score = 5 /\ game.player2Score = 3
    /\ game.player1EloAtStart = 200
    /\ game.winnerId = game.player1Id
    /\ game.eloCalculated
    /\ game.player1NewElo = 232
    /\ profile[game.player1Id] = 232

\* C20: a write of the bot callback lands only on a record whose stored
\* status is playing, and raises player2Score by exactly one: no bot write
\* lands on a finished record.
C20_NoBotWriteAfterFinished ==
    [][ \A u \in Users : BotTickWrite(u) =>
          /\ game.status = "playing"
          /\ game'.player2Score = game.player2Score + 1 ]_vars

\* session u is torn down, or the last record it observed is a started
\* game that is no longer playing
Stopped(u) ==
    \/ ~room[u]
    \/ /\ snap[u] # NoGame
       /\ snap[u].status # "playing"
       /\ snap[u].startTime # NullNum

\* C21: a session that is torn down or has observed the record out of
\* playing has no bot interval and no running countdown, and none of its
\* callbacks gets past its status check to issue a bot score write or a
\* finish write.
C21_StoppedSessionIsSilent ==
    [][ \A u \in Users :
          /\ Stopped(u) => ( ~botInterval[u] /\ ~Counting(u) )
          /\ ( Stopped(u) /\ Stopped(u)' ) =>
                /\ ~( botPc[u] = "idle" /\ botPc'[u] = "write" )
                /\ ~( endPc[u] = "read" /\ endPc'[u] = "write" ) ]_vars

\* C22: with ticks and snapshot deliveries scheduled and store operations
\* completing, a game that is playing eventually is finished.
C22_PlayingLeadsToFinished ==
    (game # NoGame /\ game.status = "playing")
        ~> (game # NoGame /\ game.status = "finished")

\* C23: a record in waiting is a human game with no second participant
\* bound, and a record in ready, playing or finished has a second
\* participant; a human game is created in waiting with player2Id null, a
\* bot game in ready with the bot identity bound.
C23_WaitingMeansUnbound ==
    [][ game' # NoGame =>
          /\ game'.status = "waiting" =>
                (game'.opponentType = "human" /\ game'.player2Id = NullId)
          /\ game'.status \in {"ready", "playing", "finished"} =>
                game'.player2Id # NullId
          /\ game = NoGame =>
                IF game'.opponentType = "human"
                THEN game'.status = "waiting" /\ game'.player2Id = NullId
                ELSE game'.status = "ready" /\ game'.player2Id \in BotIds ]_vars

\* a human game that was joined, played and finished
C23_JoinedGameFinished ==
    /\ game # NoGame
    /\ game.opponentType = "human"
    /\ game.status = "finished"
    /\ game.player2Id \in Users

\* C24: calculateNewElo applied with scoreA = 0.5, for any ratings and any
\* kFactor, moves the two ratings by opposite amounts.
C24_DrawIsZeroSum ==
    [][ \A kFactor \in KFactors :
          ApplyCalculateNewElo(1, kFactor) =>
            profile'["u1"] - profile["u1"] = -(profile'["u2"] - profile["u2"]) ]_vars

\* C25: a division problem has its divisor in 2..12, its answer (the
\* quotient) in 2..100, is displayed as dividend / divisor with dividend =
\* divisor x quotient, so the dividend is a multiple of the divisor.
C25_DivisionIsExact ==
    (game # NoGame /\ game.currentProblem.operation = "/") =>
        /\ game.currentProblem.num2 \in 2..12
        /\ game.currentAnswer \in 2..100
        /\ game.currentProblem.num1 = game.currentProblem.num2 * game.currentAnswer
        /\ game.currentProblem.num1 % game.currentProblem.num2 = 0

\* the largest division problem: 1200 / 12 = 100
C25_LargestDivision ==
    /\ game.currentProblem = [num1 |-> 1200, operation |-> "/", num2 |-> 12]
    /\ game.currentAnswer = 100

\* C26: an addition or subtraction problem has both operands in 2..100; a
\* subtraction shows the larger operand first and its answer is first -
\* second >= 0; the answer of an addition is first + second.
C26_AdditionSubtraction ==
    (game # NoGame /\ game.currentProblem.operation \in {"+", "-"}) =>
        /\ game.currentProblem.num1 \in 2..100
        /\ game.currentProblem.num2 \in 2..100
        /\ game.currentProblem.operation = "-" =>
              /\ game.currentProblem.num1 >= game.currentProblem.num2
              /\ game.currentAnswer = game.currentProblem.num1 - game.currentProblem.num2
              /\ game.currentAnswer >= 0
        /\ game.currentProblem.operation = "+" =>
              game.currentAnswer = game.currentProblem.num1 + game.currentProblem.num2

\* a subtraction of two different operands, the larger first: 100 - 2 = 98
C26_LargerFirst ==
    /\ game.currentProblem = [num1 |-> 100, operation |-> "-", num2 |-> 2]
    /\ game.currentAnswer = 98

\* C27: a multiplication problem has answer = num1 * num2, one operand in
\* 2..12 and the other in 2..100, in either display order.
C27_Multiplication ==
    (game # NoGame /\ game.currentProblem.operation = "*") =>
        /\ game.currentAnswer = game.currentProblem.num1 * game.currentProblem.num2
        /\ \/ ( game.currentProblem.num1 \in 2..12 /\ game.currentProblem.num2 \in 2..100 )
           \/ ( game.currentProblem.num2 \in 2..12 /\ game.currentProblem.num1 \in 2..100 )

\* a multiplication displayed with the wide factor first: 100 * 12 = 1200
C27_WideFactorFirst ==
    /\ game.currentProblem = [num1 |-> 100, operation |-> "*", num2 |-> 12]
    /\ game.currentAnswer = 1200

\* C28: a game is not finished early: while the status is finished, at
\* least the fixed duration has elapsed since the stored startTime.
C28_NotFinishedEarly ==
    (game # NoGame /\ game.status = "finished") =>
        now - game.startTime >= GAME_DURATION_SECONDS * 1000

\* C29: handleInputChange writes exactly when the session's snapshot is
\* playing and the input is, digit for digit, the decimal string of the
\* snapshot's currentAnswer: then one write sets the submitter's score to the
\* snapshot's score + 1 and replaces problem and answer together. On any
\* other input (same length but different, shorter, longer, or another
\* spelling of the number such as "007") it returns without a write and the
\* GameRecord is unchanged.
C29_ExactStringScores ==
    [][ \A u \in Players, value \in Inputs :
          HandleInputChange(u, value, TwoDraws, RaceScore) =>
            IF /\ snap[u] # NoGame
               /\ snap[u].status = "playing"
               /\ value = ToDigits(snap[u].currentAnswer)
            THEN /\ rejected' = NoAttempt
                 /\ \E p \in GameProblems(TwoDraws) :
                      game' = [game EXCEPT
                                 !.currentProblem = p.problem,
                                 !.currentAnswer = p.answer,
                                 !.player1Score = IF u = snap[u].player1Id
                                                  THEN snap[u].player1Score + 1 ELSE @,
                                 !.player2Score = IF u = snap[u].player1Id
                                                  THEN @ ELSE snap[u].player2Score + 1]
            ELSE /\ rejected' = << "handleInputChange", u >>
                 /\ game' = game ]_vars

\* player 2, shown the answer 7 after player 1 has scored, typed something
\* else ("8", "007", "1" or "12") and nothing was written
C29_OtherInputRejected ==
    /\ rejected = << "handleInputChange", "u2" >>
    /\ snap["u2"] # NoGame
    /\ snap["u2"].status = "playing"
    /\ snap["u2"].currentAnswer = 7
    /\ game.status = "playing"
    /\ game.player2Score = 0
    /\ game.player1Score = 1

\* the rating a RatingRecord read yields: the stored one, or 200 if absent
C30_Resolved(u) == IF profile[u] # NoProfile THEN profile[u] ELSE 200

\* C30: a trigger that proceeds takes player 1's rating from the RatingRecord
\* as stored when it reads it, or 200 if there is none; a human player 2's
\* likewise; 1000 for bot-1000 and 2000 for bot-2000; and it writes
\* calculateNewElo(rating1, rating2, scoreA, 32) of those ratings, whatever
\* player1EloAtStart and player2EloAtStart on the game are.
C30_RatingsResolvedFromRecords ==
    [][ /\ \A f \in trig' \ trig :
             \/ /\ f.pc = "commit"
                /\ \E g \in trig \ trig' :
                     /\ g.pc = "readP2"
                     /\ f = [g EXCEPT !.pc = "commit",
                                      !.player2CurrentElo = C30_Resolved(g.player2Id)]
             \/ /\ f.player1CurrentElo = C30_Resolved(f.player1Id)
                /\ f.opponentType = "bot-1000" => f.player2CurrentElo = 1000
                /\ f.opponentType = "bot-2000" => f.player2CurrentElo = 2000
                /\ f.opponentType = "human" => f.pc = "readP2"
        /\ \A f \in trig :
             TriggerCommit(f) =>
               LET new == calculateNewElo(f.player1CurrentElo, f.player2CurrentElo,
                                          ScoreA2(f), 32)
               IN  /\ game'.player1NewElo = new.newEloA
                   /\ game'.player2NewElo = new.newEloB
                   /\ profile'[f.player1Id] = new.newEloA
                   /\ f.opponentType = "human" =>
                         profile'[f.player2Id] = new.newEloB ]_vars

\* a rated game whose stored new rating of player 1 is not the one the
\* snapshots on the game would give
C30_RatedFromCurrentRatings ==
    /\ game.status = "finished"
    /\ game.eloCalculated
    /\ trig = {}
    /\ profile[game.player1Id] = game.player1NewElo
    /\ game.player1NewElo #
         calculateNewElo(game.player1EloAtStart, game.player2EloAtStart,
                         ScoreA2(game), 32).newEloA

\* a finished game is eventually rated
C31_FinishedLeadsToRated ==
    (game # NoGame /\ game.status = "finished")
        ~> ( /\ game # NoGame
             /\ game.eloCalculated
             /\ game.player1NewElo # NullNum
             /\ game.player2NewElo # NullNum )

\* C31: with the finish event delivered and the trigger's reads and commit
\* succeeding, a finished game eventually has eloCalculated = true and both
\* new ratings set, and the trigger completes for a game once: no commit
\* lands on a record that is already rated.
C31_RatedExactlyOnce ==
    /\ C31_FinishedLeadsToRated
    /\ [][ \A f \in trig : TriggerCommit(f) => ~game.eloCalculated ]_vars

\* C32: once a GameRecord exists, no step (join, start, answer, bot tick,
\* end, rating commit) changes its player1Id, opponentType, createdAt or
\* player1EloAtStart.
C32_CreationFieldsFrozen ==
    [][ game # NoGame =>
          /\ game'.player1Id = game.player1Id
          /\ game'.opponentType = game.opponentType
          /\ game'.createdAt = game.createdAt
          /\ game'.player1EloAtStart = game.player1EloAtStart ]_vars

\* a human game that was joined, started, answered, ended and rated, with
\* the four fields as createGame wrote them
C32_RatedGameKeepsCreationFields ==
    /\ game # NoGame
    /\ game.opponentType = "human"
    /\ game.player2Id # NullId
    /\ game.status = "finished"
    /\ game.player1Score = 1
    /\ game.eloCalculated
    /\ game.player1NewElo # game.player1EloAtStart
    /\ game.player1Id = Creator
    /\ game.createdAt = 0
    /\ game.player1EloAtStart = STARTING_ELO

\* C33: an answer write that changes player1Score comes from the session of
\* the stored player1Id, and one that changes player2Score from the session
\* of the stored player2Id; a session of any other identity changes no
\* score.
C33_OnlyParticipantsScore ==
    [][ \A u \in Users, value \in Inputs :
          HandleInputChange(u, value, OneDraw, RaceScore) =>
            /\ game'.player1Score # game.player1Score => u = game.player1Id
            /\ game'.player2Score # game.player2Score => u = game.player2Id ]_vars


\* the RatingRecords p after one complete execution of the trigger for the
\* finished record g, run alone
RatedAlone(p, g) ==
    LET elo(u) == IF p[u] # NoProfile THEN p[u] ELSE STARTING_ELO
        eloB == CASE g.opponentType = "bot-1000" -> BOT_1000_ELO
                  [] g.opponentType = "bot-2000" -> BOT_2000_ELO
                  [] OTHER -> elo(g.player2Id)
        new == calculateNewElo(elo(g.player1Id), eloB, ScoreA2(g), ELO_K_FACTOR)
    IN  [u \in DOMAIN p |->
            IF u = g.player1Id THEN new.newEloA
            ELSE IF g.opponentType = "human" /\ u = g.player2Id THEN new.newEloB
            ELSE p[u]]

\* both games are rated and no invocation of the trigger is left
BothRated ==
    /\ game.eloCalculated
    /\ otherGame # NoGame /\ otherGame.eloCalculated
    /\ trig = {}
    /\ events = {}

\* C34: once the trigger has completed for two finished games of the same
\* player, however its two executions interleaved, the player's RatingRecord
\* holds the rating change of both games: it is what the two executions
\* leave when one runs after the other, in one of the two orders.
C34_NoRatingUpdateLost ==
    BothRated =>
        profile[Creator] \in
            { RatedAlone(RatedAlone(InitProfile, game), otherGame)[Creator],
              RatedAlone(RatedAlone(InitProfile, otherGame), game)[Creator] }

\* C35: the remaining time a session derives from a playing record is
\* max(0, 120 - floor((now - startTime) / 1000)) and lies within 0..120,
\* whatever the session's clock shows, a clock behind startTime included.
C35_RemainingWithinDuration ==
    [][ \A u \in Users :
          (DeliverSnapshot(u) /\ game.status = "playing") =>
            /\ timer'[u] = Max(0, GAME_DURATION_SECONDS
                                    - ((now - game.startTime) \div 1000))
            /\ timer'[u] \in 0..GAME_DURATION_SECONDS ]_vars

====
